---- MODULE Spec2Model ----
(***************************************************************************)
(* Cabin booking backend: the booking routes (app/routes/bookings.py) and  *)
(* the cabin inventory route (app/routes/cabins.py) over the tables of     *)
(* app/models.py.                                                          *)
(*                                                                         *)
(* Time is counted in ticks.  A calendar day has DayLen ticks, a datetime  *)
(* is the integer day * DayLen + time-of-day, a time of day is a number    *)
(* in 0 .. DayLen-1, and a duration in minutes is a number of ticks.       *)
(***************************************************************************)
EXTENDS Integers, Sequences, FiniteSets, TLC

VARIABLES
    cabins,         \* table "cabins": set of Cabin rows
    bookings,       \* table "bookings": set of Booking rows
    users,          \* table "users": ids of the registered users
    nextCabinId,    \* autoincrement primary key of "cabins"
    nextBookingId,  \* autoincrement primary key of "bookings"
    now,            \* the wall clock read by datetime.now()
    last,           \* the response of the request served at this instant
    reqs            \* requests in flight, one per worker

vars == <<cabins, bookings, users, nextCabinId, nextBookingId, now, last, reqs>>

---------------------------------------------------------------------------
(* Bounds of the model *)

DayLen == 4
MaxNow == 1
MaxBookings == 2

(* Program constants *)

BookingWindowDays == 7
HorizonDays == 2

---------------------------------------------------------------------------
(* Inputs *)

Users == {1, 2}
Workers == {1, 2}
CabinNames == {"a"}

\* CabinCreate payloads: hours [0,3) with a 2-tick slot (one full slot and a
\* remainder) and one booking per slot; hours [0,3) with 1-tick slots, two
\* bookings per slot and the restricted window "1-2".
CabinConfigs ==
    { [slot_duration |-> 2, start_time |-> 0, end_time |-> 3,
       max_bookings_per_day |-> 1, restricted_times |-> <<>>],
      [slot_duration |-> 1, start_time |-> 0, end_time |-> 3,
       max_bookings_per_day |-> 2, restricted_times |-> << <<1, 2>> >>] }

\* A slot_time beyond the 7-day window of book_cabin, whatever the clock shows.
FarSlot == (MaxNow \div DayLen + BookingWindowDays + 1) * DayLen

\* BookingCreate.slot_time values: today at 1, tomorrow at 2, and FarSlot.
SlotTimeInputs == {1, DayLen + 2, FarSlot}

\* BookingCreate.duration values.
DurationInputs == {3}

\* "selected_slot" strings, as <<date, time of day>>: a well-formed string is
\* what strftime("%Y-%m-%d %H:%M") prints; <<>> is the missing/empty string;
\* a time of day DayLen is out of range ("24:00"); a third component marks a
\* string strptime accepts although strftime never prints it ("2025-1-5 9:00").
SelectedSlotInputs ==
    { <<0, 2>>, <<1, 1>>, <<1, 2>>, <<2, 1>>,
      <<>>, <<1, DayLen>>, <<1, 2, "unpadded">> }

---------------------------------------------------------------------------
(* datetime arithmetic *)

DateOf(dt) == dt \div DayLen
TimeOf(dt) == dt % DayLen
Combine(day, t) == day * DayLen + t
Days(n) == n * DayLen

\* strftime("%Y-%m-%d %H:%M") and strftime("%Y-%m-%d")
Strftime(dt) == <<DateOf(dt), TimeOf(dt)>>
StrftimeDay(day) == <<day>>

\* strptime(s, "%Y-%m-%d %H:%M"): ValueError unless date and time are in range
StrptimeOk(s) == Len(s) \in {2, 3} /\ s[2] \in 0 .. (DayLen - 1)
Strptime(s) == Combine(s[1], s[2])

---------------------------------------------------------------------------
(* Responses *)

\* op and code of the response; arg is the cabin_id of an availability listing
\* and <<caller, booking_id>> of a cancellation; body is the listing returned.
NoBody == <<>>
Response(op, code) == [op |-> op, code |-> code, arg |-> 0, body |-> NoBody]

Idle == [phase |-> "idle"]

Init ==
    /\ cabins = {}
    /\ bookings = {}
    /\ users = Users
    /\ nextCabinId = 1
    /\ nextBookingId = 1
    /\ now = 0
    /\ last = Response("none", 0)
    /\ reqs = [w \in Workers |-> Idle]

\* db.query(models.Cabin).filter(models.Cabin.id == cabin_id).first()
CabinById(cabin_id) ==
    IF \E c \in cabins : c.id = cabin_id
    THEN CHOOSE c \in cabins : c.id = cabin_id
    ELSE [id |-> 0]

CabinExists(cabin_id) == \E c \in cabins : c.id = cabin_id

\* The wall clock advances; the response served before belongs to the past.
Tick ==
    /\ now < MaxNow
    /\ now' = now + 1
    /\ last' = Response("none", 0)
    /\ UNCHANGED <<cabins, bookings, users, nextCabinId, nextBookingId, reqs>>

\* POST /cabins/
create_cabin(name, cfg) ==
    /\ IF \E c \in cabins : c.name = name
       THEN /\ last' = Response("create_cabin", 400)
            /\ UNCHANGED <<cabins, nextCabinId>>
       ELSE /\ cabins' = cabins \cup
                  {[id |-> nextCabinId, name |-> name,
                    slot_duration |-> cfg.slot_duration,
                    start_time |-> cfg.start_time,
                    end_time |-> cfg.end_time,
                    max_bookings_per_day |-> cfg.max_bookings_per_day,
                    restricted_times |-> cfg.restricted_times]}
            /\ nextCabinId' = nextCabinId + 1
            /\ last' = Response("create_cabin", 200)
    /\ UNCHANGED <<bookings, users, nextBookingId, now, reqs>>

---------------------------------------------------------------------------
(* GET /bookings/{cabin_id}/available-slots *)

\* The query without its filter on the status: a Cancelled booking blocks too.
ActiveBookings_any_status(cabin_id) ==
    { b \in bookings :
        /\ b.cabin_id = cabin_id
        /\ b.slot_time >= now
        /\ b.slot_time <= now + Days(1) }

\* The query of lines 76-81: the cabin's Active bookings from now to now + 1 day.
ActiveBookings(cabin_id) ==
    { b \in bookings :
        /\ b.cabin_id = cabin_id
        /\ b.status = "Active"
        /\ b.slot_time >= now
        /\ b.slot_time <= now + Days(1) }

\* The while loop of lines 92-108 from current_time on: the formatted starts
\* of the slots that are neither skipped as past nor found booked.
RECURSIVE DailySlots(_, _, _, _)
DailySlots(cabin, active, day, current_time) ==
    IF ~(current_time < Combine(day, cabin.end_time))
    THEN <<>>
    ELSE IF day = DateOf(now) /\ current_time <= now
    THEN DailySlots(cabin, active, day, current_time + cabin.slot_duration)
    ELSE IF \E b \in active : b.slot_time = current_time
    THEN DailySlots(cabin, active, day, current_time + cabin.slot_duration)
    ELSE <<Strftime(current_time)>>
         \o DailySlots(cabin, active, day, current_time + cabin.slot_duration)

\* The days of the horizon: range(2) from now.date()
HorizonDates == { DateOf(now + Days(o)) : o \in 0 .. (HorizonDays - 1) }

\* The dict available_slots of lines 84-111: formatted day -> list of slots.
AvailableSlots(cabin_id) ==
    LET cabin == CabinById(cabin_id)
        active == ActiveBookings(cabin_id)
    IN  [ k \in { StrftimeDay(d) : d \in HorizonDates } |->
            DailySlots(cabin, active, k[1], Combine(k[1], cabin.start_time)) ]

\* A listing that also expires what it skips: the cabin's bookings at or
\* before now are marked Cancelled.
list_available_slots_expiring(cabin_id) ==
    /\ IF ~CabinExists(cabin_id)
       THEN last' = Response("list_available_slots", 404)
       ELSE last' = [op |-> "list_available_slots", code |-> 200,
                     arg |-> cabin_id, body |-> AvailableSlots(cabin_id)]
    /\ bookings' = { IF b.cabin_id = cabin_id /\ b.slot_time <= now
                     THEN [b EXCEPT !.status = "Cancelled"] ELSE b : b \in bookings }
    /\ UNCHANGED <<cabins, users, nextCabinId, nextBookingId, now, reqs>>

list_available_slots(cabin_id) ==
    /\ IF ~CabinExists(cabin_id)
       THEN last' = Response("list_available_slots", 404)
       ELSE last' = [op |-> "list_available_slots", code |-> 200,
                     arg |-> cabin_id, body |-> AvailableSlots(cabin_id)]
    /\ UNCHANGED <<cabins, bookings, users, nextCabinId, nextBookingId, now, reqs>>

---------------------------------------------------------------------------
(* Booking rows *)

NewBooking(user_id, cabin_id, slot_time, duration) ==
    [id |-> nextBookingId, user_id |-> user_id, cabin_id |-> cabin_id,
     slot_time |-> slot_time, duration |-> duration, status |-> "Active"]

\* db.add(new_booking); db.commit()
Insert(b) ==
    /\ bookings' = bookings \cup {b}
    /\ nextBookingId' = nextBookingId + 1

---------------------------------------------------------------------------
(* POST /bookings/ *)

\* The checks of lines 17-33: the status code of the rejection, 200 if none.
BookCabinCheck(booking) ==
    IF ~CabinExists(booking.cabin_id) THEN 404
    ELSE IF DateOf(booking.slot_time) > DateOf(now + Days(BookingWindowDays)) THEN 400
    ELSE IF Cardinality({ b \in bookings :
                            /\ b.cabin_id = booking.cabin_id
                            /\ b.slot_time = booking.slot_time
                            /\ b.status = "Active" })
            >= CabinById(booking.cabin_id).max_bookings_per_day THEN 403
    ELSE 200

book_cabin(user, booking) ==
    /\ nextBookingId <= MaxBookings
    /\ LET code == BookCabinCheck(booking) IN
       /\ last' = Response("book_cabin", code)
       /\ IF code = 200
          THEN Insert(NewBooking(user, booking.cabin_id, booking.slot_time,
                                 booking.duration))
          ELSE UNCHANGED <<bookings, nextBookingId>>
    /\ UNCHANGED <<cabins, users, nextCabinId, now, reqs>>

---------------------------------------------------------------------------
(* POST /bookings/{cabin_id}/book-selected-slot *)

\* The checks of lines 128-158: the status code of the rejection, 200 if none.
BookSelectedSlotCheck(cabin_id, selected_slot) ==
    IF selected_slot = <<>> THEN 400
    ELSE IF ~CabinExists(cabin_id) THEN 404
    ELSE IF ~StrptimeOk(selected_slot) THEN 400
    ELSE LET slot_time == Strptime(selected_slot)
             cabin == CabinById(cabin_id)
             available_slots == AvailableSlots(cabin_id)
             selected_day == StrftimeDay(DateOf(slot_time))
         IN  IF ~(DateOf(now) <= DateOf(slot_time)
                  /\ DateOf(slot_time) <= DateOf(now + Days(1))) THEN 400
             ELSE IF TimeOf(slot_time) < cabin.start_time
                     \/ TimeOf(slot_time) >= cabin.end_time THEN 400
             ELSE IF selected_day \notin DOMAIN available_slots
                     \/ ~(\E i \in DOMAIN available_slots[selected_day] :
                            available_slots[selected_day][i] = selected_slot)
                  THEN 400
             ELSE 200

book_selected_slot(user, cabin_id, selected_slot) ==
    /\ nextBookingId <= MaxBookings
    /\ LET code == BookSelectedSlotCheck(cabin_id, selected_slot) IN
       /\ last' = Response("book_selected_slot", code)
       /\ IF code = 200
          THEN Insert(NewBooking(user, cabin_id, Strptime(selected_slot),
                                 CabinById(cabin_id).slot_duration))
          ELSE UNCHANGED <<bookings, nextBookingId>>
    /\ UNCHANGED <<cabins, users, nextCabinId, now, reqs>>

---------------------------------------------------------------------------
(* DELETE /bookings/{booking_id}/cancel *)

\* The query without its filter on the owner.
OwnedActive_any_user(user, booking_id) ==
    { b \in bookings : b.id = booking_id /\ b.status = "Active" }

\* The query of lines 241-245
OwnedActive(user, booking_id) ==
    { b \in bookings :
        b.id = booking_id /\ b.user_id = user /\ b.status = "Active" }

\* A cancellation that removes the row instead of marking it.
cancel_user_booking_deleting(user, booking_id) ==
    /\ IF OwnedActive(user, booking_id) = {}
       THEN /\ last' = [Response("cancel_user_booking", 404)
                          EXCEPT !.arg = <<user, booking_id>>]
            /\ UNCHANGED bookings
       ELSE /\ bookings' = bookings \ OwnedActive(user, booking_id)
            /\ last' = [Response("cancel_user_booking", 200)
                          EXCEPT !.arg = <<user, booking_id>>]
    /\ UNCHANGED <<cabins, users, nextCabinId, nextBookingId, now, reqs>>

cancel_user_booking(user, booking_id) ==
    /\ IF OwnedActive(user, booking_id) = {}
       THEN /\ last' = [Response("cancel_user_booking", 404)
                          EXCEPT !.arg = <<user, booking_id>>]
            /\ UNCHANGED bookings
       ELSE /\ bookings' =
                  { IF b \in OwnedActive(user, booking_id)
                    THEN [b EXCEPT !.status = "Cancelled"] ELSE b : b \in bookings }
            /\ last' = [Response("cancel_user_booking", 200)
                          EXCEPT !.arg = <<user, booking_id>>]
    /\ UNCHANGED <<cabins, users, nextCabinId, nextBookingId, now, reqs>>

(* DELETE /bookings/admin/{booking_id}/delete *)
admin_delete_booking(booking_id) ==
    /\ IF ~(\E b \in bookings : b.id = booking_id)
       THEN /\ last' = Response("admin_delete_booking", 404)
            /\ UNCHANGED bookings
       ELSE /\ bookings' = { b \in bookings : b.id # booking_id }
            /\ last' = Response("admin_delete_booking", 200)
    /\ UNCHANGED <<cabins, users, nextCabinId, nextBookingId, now, reqs>>

---------------------------------------------------------------------------
CabinIdInputs == 1 .. (Cardinality(CabinNames) + 1)
BookingIdInputs == 1 .. (MaxBookings + 1)
BookingCreate ==
    [cabin_id : CabinIdInputs, slot_time : SlotTimeInputs, duration : DurationInputs]

Next ==
    \/ Tick
    \/ \E name \in CabinNames, cfg \in CabinConfigs : create_cabin(name, cfg)
    \/ \E c \in CabinIdInputs : list_available_slots(c)
    \/ \E u \in users, booking \in BookingCreate : book_cabin(u, booking)
    \/ \E u \in users, c \in CabinIdInputs, s \in SelectedSlotInputs :
          book_selected_slot(u, c, s)
    \/ \E u \in users, id \in BookingIdInputs : cancel_user_booking(u, id)
    \/ \E id \in BookingIdInputs : admin_delete_booking(id)

Spec == Init /\ [][Next]_vars

---------------------------------------------------------------------------
(* Two workers serving booking requests concurrently.  A handler reads the  *)
(* tables (its checks) and later commits its insert; another worker's       *)
(* queries and commits may fall in between.                                 *)

Checked(op, user, cabin_id, slot_time, duration) ==
    [phase |-> "checked", op |-> op, user |-> user, cabin_id |-> cabin_id,
     slot_time |-> slot_time, duration |-> duration]

Done(op, cabin_id, slot_time, code) ==
    [phase |-> "done", op |-> op, cabin_id |-> cabin_id,
     slot_time |-> slot_time, code |-> code]

\* Inserts that workers have passed their checks for and not yet committed.
Pending == Cardinality({ w \in Workers : reqs[w].phase = "checked" })

\* book_cabin, lines 17-33: the queries and the checks
book_cabin_check(w, user, booking) ==
    /\ reqs[w].phase = "idle"
    /\ nextBookingId + Pending <= MaxBookings
    /\ LET code == BookCabinCheck(booking) IN
       IF code = 200
       THEN /\ reqs' = [reqs EXCEPT ![w] =
                          Checked("book_cabin", user, booking.cabin_id,
                                  booking.slot_time, booking.duration)]
            /\ UNCHANGED last
       ELSE /\ reqs' = [reqs EXCEPT ![w] =
                          Done("book_cabin", booking.cabin_id,
                               booking.slot_time, code)]
            /\ last' = Response("book_cabin", code)
    /\ UNCHANGED <<cabins, bookings, users, nextCabinId, nextBookingId, now>>

\* book_selected_slot, lines 128-158: the queries and the checks
book_selected_slot_check(w, user, cabin_id, selected_slot) ==
    /\ reqs[w].phase = "idle"
    /\ nextBookingId + Pending <= MaxBookings
    /\ LET code == BookSelectedSlotCheck(cabin_id, selected_slot)
           slot_time == IF StrptimeOk(selected_slot)
                        THEN Strptime(selected_slot) ELSE -1
       IN
       IF code = 200
       THEN /\ reqs' = [reqs EXCEPT ![w] =
                          Checked("book_selected_slot", user, cabin_id, slot_time,
                                  CabinById(cabin_id).slot_duration)]
            /\ UNCHANGED last
       ELSE /\ reqs' = [reqs EXCEPT ![w] =
                          Done("book_selected_slot", cabin_id, slot_time, code)]
            /\ last' = Response("book_selected_slot", code)
    /\ UNCHANGED <<cabins, bookings, users, nextCabinId, nextBookingId, now>>

\* db.add(new_booking); db.commit() of either handler, lines 36-44 and 161-169
booking_commit(w) ==
    /\ reqs[w].phase = "checked"
    /\ Insert(NewBooking(reqs[w].user, reqs[w].cabin_id, reqs[w].slot_time,
                         reqs[w].duration))
    /\ reqs' = [reqs EXCEPT ![w] =
                  Done(reqs[w].op, reqs[w].cabin_id, reqs[w].slot_time, 200)]
    /\ last' = Response(reqs[w].op, 200)
    /\ UNCHANGED <<cabins, users, nextCabinId, now>>

\* The requests of the race: a cabin with one booking per slot, and slots of
\* today later than now, which a sequential second request finds taken.
RaceConfigs == { cfg \in CabinConfigs : cfg.max_bookings_per_day = 1 }
RaceSlotTimes == { t \in 0 .. (DayLen - 1) : t > MaxNow }
RaceBookingCreate ==
    [cabin_id : CabinIdInputs, slot_time : RaceSlotTimes, duration : DurationInputs]
RaceSelectedSlots == { Strftime(t) : t \in RaceSlotTimes }

NextRace ==
    \/ Tick
    \/ \E name \in CabinNames, cfg \in RaceConfigs : create_cabin(name, cfg)
    \/ \E w \in Workers, u \in users, booking \in RaceBookingCreate :
          book_cabin_check(w, u, booking)
    \/ \E w \in Workers, u \in users, c \in CabinIdInputs, s \in RaceSelectedSlots :
          book_selected_slot_check(w, u, c, s)
    \/ \E w \in Workers : booking_commit(w)

SpecRace == Init /\ [][NextRace]_vars
---------------------------------------------------------------------------
(* Properties *)

Active(b) == b.status = "Active"

\* C1: in every reachable state there is at most one Active booking for
\* any (cabin_id, slot_time) pair.
C1_OneActivePerCabinSlot ==
    \A b1, b2 \in bookings :
        (Active(b1) /\ Active(b2)
         /\ b1.cabin_id = b2.cabin_id /\ b1.slot_time = b2.slot_time)
        => b1.id = b2.id

\* C2: in every reachable state a user holds at most one Active booking per
\* calendar day, counted across all cabins.
C2_OneActivePerUserPerDay ==
    \A b1, b2 \in bookings :
        (Active(b1) /\ Active(b2)
         /\ b1.user_id = b2.user_id
         /\ DateOf(b1.slot_time) = DateOf(b2.slot_time))
        => b1.id = b2.id

\* C3: of two booking requests for the same (cabin, slot_time) served
\* concurrently, at most one creates a booking (the other is rejected).
C3_RaceAtMostOneSucceeds ==
    \A w1, w2 \in Workers :
        (w1 # w2
         /\ reqs[w1].phase = "done" /\ reqs[w2].phase = "done"
         /\ reqs[w1].cabin_id = reqs[w2].cabin_id
         /\ reqs[w1].slot_time = reqs[w2].slot_time)
        => ~(reqs[w1].code = 200 /\ reqs[w2].code = 200)

\* C4: a book_selected_slot request for a cabin and slot_time that already has
\* an Active booking is rejected with an error and leaves the booking records
\* exactly as they were, for every slot of today and tomorrow.
C4_BookedSlotRejected ==
    [][ \A u \in Users, c \in CabinIdInputs, s \in SelectedSlotInputs :
          ( /\ book_selected_slot(u, c, s)
            /\ StrptimeOk(s)
            /\ \E b \in bookings :
                  Active(b) /\ b.cabin_id = c /\ b.slot_time = Strptime(s) )
          => (bookings' = bookings /\ last'.code # 200) ]_vars

\* The slot starts of a cabin on the days of the horizon: on the grid
\* start_time + k * slot_duration, inside [start_time, end_time).
IsSlotStart(cabin, slot_time) ==
    /\ DateOf(slot_time) \in HorizonDates
    /\ cabin.start_time <= TimeOf(slot_time)
    /\ TimeOf(slot_time) < cabin.end_time
    /\ (TimeOf(slot_time) - cabin.start_time) % cabin.slot_duration = 0

\* C5: every booking a booking operation creates has a slot_time that is a
\* slot start of its cabin at that moment (on the grid, inside the operating
\* hours, dated today or tomorrow); any other request creates no booking.
C5_CreatedOnSlotGrid ==
    [][ \A b \in bookings' :
          b.id \notin { x.id : x \in bookings }
          => IsSlotStart(CabinById(b.cabin_id), b.slot_time) ]_vars

\* An availability listing has just been returned.
ListedOk == last.op = "list_available_slots" /\ last.code = 200

\* The slots of the listing, over both days, and the days it covers.
ListedSlots ==
    UNION { { last.body[k][i] : i \in DOMAIN last.body[k] } : k \in DOMAIN last.body }
ListedDays == { k[1] : k \in DOMAIN last.body }

\* C6: for a restricted window [b_start, b_end) inside the cabin's operating
\* hours, no listed slot starts at a time of day t with b_start <= t < b_end,
\* on either day.
C6_NoSlotInRestrictedWindow ==
    ListedOk =>
        LET cabin == CabinById(last.arg) IN
        \A i \in DOMAIN cabin.restricted_times :
            LET b_start == cabin.restricted_times[i][1]
                b_end == cabin.restricted_times[i][2]
            IN  (cabin.start_time <= b_start /\ b_start < b_end
                 /\ b_end <= cabin.end_time)
                => \A s \in ListedSlots : ~(b_start <= s[2] /\ s[2] < b_end)

\* The length in minutes of a listed slot: what booking it reserves.
SlotMinutes(cabin) == cabin.slot_duration

\* C7: for a cabin without restricted windows and start_time < end_time, the
\* slots of tomorrow are floor((end_time - start_time) / slot_duration) full
\* slots followed by one partial slot of the remaining minutes iff the
\* remainder is not zero, and no slot extends past end_time.
C7_FullSlotsThenPartial ==
    LET cabin == CabinById(last.arg) IN
    ( /\ ListedOk
      /\ cabin.restricted_times = <<>>
      /\ cabin.start_time < cabin.end_time
      /\ ~(\E b \in bookings : Active(b) /\ b.cabin_id = cabin.id) )
    => LET tomorrow == CHOOSE k \in DOMAIN last.body :
                          \A j \in DOMAIN last.body : j[1] <= k[1]
           slots == last.body[tomorrow]
           span == cabin.end_time - cabin.start_time
           full == span \div cabin.slot_duration
           rest == span % cabin.slot_duration
       IN  /\ Len(slots) = full + (IF rest # 0 THEN 1 ELSE 0)
           /\ \A i \in 1 .. Len(slots) :
                /\ slots[i][2] = cabin.start_time + (i - 1) * cabin.slot_duration
                /\ SlotMinutes(cabin) = (IF i <= full THEN cabin.slot_duration ELSE rest)
                /\ slots[i][2] + SlotMinutes(cabin) <= cabin.end_time

\* C8: the listing contains every slot generated within the horizon, labelled
\* booked, past or available; an entry the listing shows as available is
\* neither booked nor before now, and a slot starting exactly at now is not past.
C8_EverySlotListedWithLabel ==
    ListedOk =>
        LET cabin == CabinById(last.arg) IN
        /\ \A d \in ListedDays, t \in 0 .. (DayLen - 1) :
              IsSlotStart(cabin, Combine(d, t)) => <<d, t>> \in ListedSlots
        /\ \A s \in ListedSlots :
              /\ ~(\E b \in bookings :
                     Active(b) /\ b.cabin_id = cabin.id /\ b.slot_time = Strptime(s))
              /\ ~(Strptime(s) < now)

\* C9: list_available_slots leaves cabins, bookings and users unchanged, and
\* a call repeated with the same now, cabin and bookings returns the same result.
C9_ListReadOnlyRepeatable ==
    [][ last'.op = "list_available_slots"
        => /\ UNCHANGED <<cabins, bookings, users, nextCabinId, nextBookingId, now>>
           /\ ( /\ last.op = "list_available_slots"
                /\ last.arg = last'.arg
                /\ last.code = last'.code )
              => last'.body = last.body ]_vars

\* A listing was returned for a cabin that has an Active booking and free slots.
C9_Witness ==
    /\ ListedOk
    /\ ListedSlots # {}
    /\ \E b \in bookings : Active(b) /\ b.cabin_id = last.arg

\* C10: cancel_user_booking changes state only when the booking exists, is
\* owned by the caller and is Active: then exactly that booking becomes
\* Cancelled; otherwise it reports not found and every booking is unchanged.
C10_CancelOnlyOwnedActive ==
    [][ last'.op = "cancel_user_booking"
        => LET caller == last'.arg[1]
               booking_id == last'.arg[2]
               target == { b \in bookings :
                             b.id = booking_id /\ b.user_id = caller /\ Active(b) }
           IN  /\ UNCHANGED <<cabins, users, nextCabinId, nextBookingId, now>>
               /\ IF target # {}
                  THEN /\ last'.code = 200
                       /\ bookings' = (bookings \ target)
                             \cup { [b EXCEPT !.status = "Cancelled"] : b \in target }
                  ELSE /\ last'.code = 404
                       /\ bookings' = bookings ]_vars

\* The owner's second cancel of a booking they cancelled before: not found.
C10_Witness ==
    /\ last.op = "cancel_user_booking"
    /\ last.code = 404
    /\ \E b \in bookings :
          /\ b.id = last.arg[2] /\ b.user_id = last.arg[1]
          /\ b.status = "Cancelled"
    /\ \E b \in bookings : Active(b)
---------------------------------------------------------------------------
(* Cabin administration: PUT and DELETE /cabins/{cabin_id} *)

MaxCabins == 1

\* The unique index on cabins.name (models.py: unique=True): the commit of a
\* row whose name another row holds raises IntegrityError.
NameTaken(name, cabin_id) == \E c \in cabins : c.name = name /\ c.id # cabin_id

\* The foreign key bookings.cabin_id -> cabins.id: the rows that keep the
\* DELETE of the cabin from committing.
Referencing(cabin_id) == { b \in bookings : b.cabin_id = cabin_id }

update_cabin(cabin_id, name, cfg) ==
    /\ IF ~CabinExists(cabin_id)
       THEN /\ last' = Response("update_cabin", 404)
            /\ UNCHANGED cabins
       ELSE IF NameTaken(name, cabin_id)
       THEN /\ last' = Response("update_cabin", 500)
            /\ UNCHANGED cabins
       ELSE /\ cabins' = { IF c.id = cabin_id
                           THEN [id |-> c.id, name |-> name,
                                 slot_duration |-> cfg.slot_duration,
                                 start_time |-> cfg.start_time,
                                 end_time |-> cfg.end_time,
                                 max_bookings_per_day |-> cfg.max_bookings_per_day,
                                 restricted_times |-> cfg.restricted_times]
                           ELSE c : c \in cabins }
            /\ last' = Response("update_cabin", 200)
    /\ UNCHANGED <<bookings, users, nextCabinId, nextBookingId, now, reqs>>

\* A delete without the foreign key: the cabin's bookings stay behind.
delete_cabin_orphaning(cabin_id) ==
    /\ IF ~CabinExists(cabin_id)
       THEN /\ last' = Response("delete_cabin", 404)
            /\ UNCHANGED cabins
       ELSE /\ cabins' = { c \in cabins : c.id # cabin_id }
            /\ last' = Response("delete_cabin", 200)
    /\ UNCHANGED <<bookings, users, nextCabinId, nextBookingId, now, reqs>>

delete_cabin(cabin_id) ==
    /\ IF ~CabinExists(cabin_id)
       THEN /\ last' = Response("delete_cabin", 404)
            /\ UNCHANGED cabins
       ELSE IF Referencing(cabin_id) # {}
       THEN /\ last' = Response("delete_cabin", 500)
            /\ UNCHANGED cabins
       ELSE /\ cabins' = { c \in cabins : c.id # cabin_id }
            /\ last' = Response("delete_cabin", 200)
    /\ UNCHANGED <<bookings, users, nextCabinId, nextBookingId, now, reqs>>

\* Every route of the application, one request at a time, for one caller.
FullUsers == {1}
FullCabinIds == 1 .. (MaxCabins + 1)
FullSelectedSlots == { <<0, 2>>, <<1, 2>>, <<2, 1>>, <<>> }
FullBookingCreate ==
    [cabin_id : FullCabinIds, slot_time : SlotTimeInputs, duration : DurationInputs]

NextFull ==
    \/ Tick
    \/ \E name \in CabinNames, cfg \in CabinConfigs :
          nextCabinId <= MaxCabins /\ create_cabin(name, cfg)
    \/ \E c \in FullCabinIds, name \in CabinNames, cfg \in CabinConfigs :
          update_cabin(c, name, cfg)
    \/ \E c \in FullCabinIds : delete_cabin(c)
    \/ \E c \in FullCabinIds : list_available_slots(c)
    \/ \E u \in FullUsers, booking \in FullBookingCreate : book_cabin(u, booking)
    \/ \E u \in FullUsers, c \in FullCabinIds, s \in FullSelectedSlots :
          book_selected_slot(u, c, s)
    \/ \E u \in FullUsers, id \in BookingIdInputs : cancel_user_booking(u, id)
    \/ \E id \in BookingIdInputs : admin_delete_booking(id)

SpecFull == Init /\ [][NextFull]_vars

\* C11: every booking is created Active, a status is Active or Cancelled, a
\* Cancelled booking never becomes Active again, and a booking record leaves
\* the store only through admin_delete_booking.
C11_BookingLifecycle ==
    [][ LET ids == { b.id : b \in bookings }
            ids_after == { b.id : b \in bookings' }
        IN  /\ \A b \in bookings' :
                 /\ b.status \in {"Active", "Cancelled"}
                 /\ b.id \notin ids => b.status = "Active"
            /\ \A b \in bookings, c \in bookings' :
                 (b.id = c.id /\ b.status = "Cancelled") => c.status = "Cancelled"
            /\ ~(ids \subseteq ids_after)
                 => last'.op = "admin_delete_booking" ]_vars

\* An admin delete has removed a booking while another one stays Cancelled.
C11_Witness ==
    /\ last.op = "admin_delete_booking" /\ last.code = 200
    /\ \E b \in bookings : b.status = "Cancelled"
    /\ \E id \in 1 .. (nextBookingId - 1) : id \notin { b.id : b \in bookings }
---------------------------------------------------------------------------
(* Booking requests that state a duration *)

\* Durations a caller supplies: a non-positive one, and a positive one that is
\* no cabin's slot_duration.
DurationPayloads == {0, 3}
DurationBookingCreate ==
    [cabin_id : CabinIdInputs, slot_time : SlotTimeInputs, duration : DurationPayloads]

\* The JSON payload of book_selected_slot: a dict of which the handler reads
\* "selected_slot" alone.
SelectedSlotPayloads == [selected_slot : FullSelectedSlots, duration : DurationPayloads]

book_selected_slot_request(user, cabin_id, booking_data) ==
    book_selected_slot(user, cabin_id, booking_data.selected_slot)

NextDuration ==
    \/ Tick
    \/ \E name \in CabinNames, cfg \in CabinConfigs : create_cabin(name, cfg)
    \/ \E u \in FullUsers, booking \in DurationBookingCreate : book_cabin(u, booking)
    \/ \E u \in FullUsers, c \in CabinIdInputs, data \in SelectedSlotPayloads :
          book_selected_slot_request(u, c, data)
    \/ \E u \in FullUsers, id \in BookingIdInputs : cancel_user_booking(u, id)

SpecDuration == Init /\ [][NextDuration]_vars

\* The booking a step has created for the caller, the cabin and the duration
\* of the request, if the step created one.
CreatedAsRequested(user, cabin_id, duration) ==
    \A b \in bookings' :
        b.id \notin { x.id : x \in bookings }
        => /\ b.status = "Active"
           /\ b.user_id = user
           /\ b.cabin_id = cabin_id
           /\ b.duration = duration

\* C12: a successful booking creates an Active booking with the duration the
\* caller supplied, owned by the caller and referencing the requested cabin;
\* a request with a non-positive duration creates no booking.
C12_SuppliedDurationKept ==
    [][ /\ \A u \in FullUsers, booking \in DurationBookingCreate :
              book_cabin(u, booking)
              => /\ CreatedAsRequested(u, booking.cabin_id, booking.duration)
                 /\ booking.duration <= 0
                      => (bookings' = bookings /\ last'.code # 200)
        /\ \A u \in FullUsers, c \in CabinIdInputs, data \in SelectedSlotPayloads :
              book_selected_slot_request(u, c, data)
              => /\ CreatedAsRequested(u, c, data.duration)
                 /\ data.duration <= 0
                      => (bookings' = bookings /\ last'.code # 200) ]_vars
---------------------------------------------------------------------------
(* Cabin administration with more than one cabin name *)

AdminCabinNames == {"a", "b"}
AdminCabinIds == 1 .. (MaxCabins + 2)

NextCabins ==
    \/ Tick
    \/ \E name \in AdminCabinNames, cfg \in CabinConfigs :
          nextCabinId <= MaxCabins + 1 /\ create_cabin(name, cfg)
    \/ \E c \in AdminCabinIds, name \in AdminCabinNames, cfg \in CabinConfigs :
          update_cabin(c, name, cfg)
    \/ \E c \in AdminCabinIds : delete_cabin(c)

SpecCabins == Init /\ [][NextCabins]_vars

\* The response of a request rejected as a Conflict: the 400 create_cabin
\* gives a duplicate name, or 409.
Conflict(response) == response.code \in {400, 409}

\* C13: under create_cabin, update_cabin and delete_cabin no two cabins ever
\* have the same name, and a create or an update that would give a cabin the
\* name of another existing cabin is rejected as a Conflict and leaves all
\* cabins unchanged.
C13_UniqueNamesByConflict ==
    [][ /\ \A c, d \in cabins' : c.name = d.name => c = d
        /\ \A name \in AdminCabinNames, cfg \in CabinConfigs :
              (create_cabin(name, cfg) /\ NameTaken(name, nextCabinId))
              => (Conflict(last') /\ cabins' = cabins)
        /\ \A id \in AdminCabinIds, name \in AdminCabinNames, cfg \in CabinConfigs :
              (update_cabin(id, name, cfg) /\ CabinExists(id) /\ NameTaken(name, id))
              => (Conflict(last') /\ cabins' = cabins) ]_vars

\* The slot starts of a cabin that lie in the future inside the horizon and
\* carry no Active booking.
FreeSlotStarts(cabin) ==
    { t \in Combine(DateOf(now), 0) .. (Combine(DateOf(now) + HorizonDays, 0) - 1) :
        /\ t > now
        /\ IsSlotStart(cabin, t)
        /\ ~\E b \in bookings :
              b.cabin_id = cabin.id /\ b.slot_time = t /\ Active(b) }

\* C14: only Active bookings block a slot.  Whatever Cancelled bookings exist
\* and whatever bookings were deleted, a listing contains every future slot
\* start of the horizon that has no Active booking, and a book_selected_slot
\* request for such a slot succeeds and creates the Active booking.
C14_OnlyActiveBlocks ==
    [][ /\ (last'.op = "list_available_slots" /\ last'.code = 200)
           => \A t \in FreeSlotStarts(CabinById(last'.arg)) :
                 Strftime(t) \in ListedSlots'
        /\ \A u \in FullUsers, c \in FullCabinIds :
              (last'.op = "book_selected_slot" /\ CabinExists(c))
              => \A t \in FreeSlotStarts(CabinById(c)) :
                    book_selected_slot(u, c, Strftime(t))
                    => /\ last'.code = 200
                       /\ \E b \in bookings' \ bookings :
                             /\ b.cabin_id = c /\ b.slot_time = t /\ Active(b) ]_vars

\* A slot whose booking was cancelled has just been booked again.
C14_Witness ==
    /\ last.op = "book_selected_slot" /\ last.code = 200
    /\ \E b, c \in bookings :
          /\ b.status = "Cancelled" /\ Active(c)
          /\ b.cabin_id = c.cabin_id /\ b.slot_time = c.slot_time
          /\ c.id = nextBookingId - 1 /\ b.id < c.id

\* C15: in every reachable state every booking's cabin_id refers to a cabin
\* that still exists; delete_cabin on a cabin that has bookings, Active or
\* Cancelled, leaves no booking referencing a deleted cabin.
C15_BookingsReferenceCabins ==
    \A b \in bookings : \E c \in cabins : c.id = b.cabin_id

\* delete_cabin has just been refused for a cabin that has a Cancelled booking.
C15_Witness ==
    /\ last.op = "delete_cabin" /\ last.code = 500
    /\ \E b \in bookings : b.status = "Cancelled"
---------------------------------------------------------------------------
(* GET /bookings/{cabin_id}/available-slots, one loop iteration at a time *)

\* Iterations of the while loop followed within one request.
MaxIter == 8

\* CabinCreate payloads as create_cabin and update_cabin store them, without
\* any validation: slot_duration zero, slot_duration negative, start_time
\* after end_time, and an ordinary cabin.
LoopConfigs ==
    { [slot_duration |-> 0, start_time |-> 0, end_time |-> 3,
       max_bookings_per_day |-> 1, restricted_times |-> <<>>],
      [slot_duration |-> -1, start_time |-> 1, end_time |-> 3,
       max_bookings_per_day |-> 1, restricted_times |-> <<>>],
      [slot_duration |-> 1, start_time |-> 3, end_time |-> 1,
       max_bookings_per_day |-> 1, restricted_times |-> <<>>],
      [slot_duration |-> 2, start_time |-> 0, end_time |-> 3,
       max_bookings_per_day |-> 1, restricted_times |-> <<>>] }

LoopWorkers == {1}
LoopBookingCreate == [cabin_id : {1}, slot_time : {2}, duration : DurationInputs]

\* datetime.min: current_time + timedelta below it raises OverflowError.
MinDatetime == Combine(-1, 0)

\* Lines 71-85: the cabin row, the active bookings and now are read once.
list_begin(w, cabin_id) ==
    /\ reqs[w].phase = "idle"
    /\ IF ~CabinExists(cabin_id)
       THEN /\ last' = Response("list_available_slots", 404)
            /\ UNCHANGED reqs
       ELSE /\ reqs' = [reqs EXCEPT ![w] =
                          [phase |-> "for", cabin |-> CabinById(cabin_id),
                           active |-> ActiveBookings(cabin_id), now |-> now,
                           day_offset |-> 0, day |-> 0, current_time |-> 0,
                           daily_slots |-> <<>>, available_slots |-> <<>>,
                           iter |-> 0]]
            /\ UNCHANGED last
    /\ UNCHANGED <<cabins, bookings, users, nextCabinId, nextBookingId, now>>

\* Lines 86-90: the next day of range(2) is entered.
list_day(w) ==
    /\ reqs[w].phase = "for"
    /\ reqs[w].day_offset < HorizonDays
    /\ LET r == reqs[w]
           day == DateOf(r.now + Days(r.day_offset))
       IN  reqs' = [reqs EXCEPT ![w] =
                      [r EXCEPT !.phase = "while", !.day = day,
                                !.current_time = Combine(day, r.cabin.start_time),
                                !.daily_slots = <<>>]]
    /\ UNCHANGED <<cabins, bookings, users, nextCabinId, nextBookingId, now, last>>

\* Lines 92-108: one iteration of "while current_time < end_time".
list_step(w) ==
    /\ reqs[w].phase = "while"
    /\ reqs[w].current_time < Combine(reqs[w].day, reqs[w].cabin.end_time)
    /\ reqs[w].iter < MaxIter
    /\ LET r == reqs[w]
           skipped == r.day = DateOf(r.now) /\ r.current_time <= r.now
           booked == \E b \in r.active : b.slot_time = r.current_time
           slots == IF ~skipped /\ ~booked
                    THEN Append(r.daily_slots, Strftime(r.current_time))
                    ELSE r.daily_slots
           next_time == r.current_time + r.cabin.slot_duration
       IN  IF next_time < MinDatetime
           THEN /\ reqs' = [reqs EXCEPT ![w] = Idle]
                /\ last' = Response("list_available_slots", 500)
           ELSE /\ reqs' = [reqs EXCEPT ![w] =
                              [r EXCEPT !.current_time = next_time,
                                        !.daily_slots = slots,
                                        !.iter = r.iter + 1]]
                /\ UNCHANGED last
    /\ UNCHANGED <<cabins, bookings, users, nextCabinId, nextBookingId, now>>

\* Line 111: the loop is left and the day's list is stored.
list_day_end(w) ==
    /\ reqs[w].phase = "while"
    /\ ~(reqs[w].current_time < Combine(reqs[w].day, reqs[w].cabin.end_time))
    /\ LET r == reqs[w] IN
       reqs' = [reqs EXCEPT ![w] =
                  [r EXCEPT !.phase = "for", !.day_offset = r.day_offset + 1,
                            !.available_slots =
                                (StrftimeDay(r.day) :> r.daily_slots) @@ r.available_slots]]
    /\ UNCHANGED <<cabins, bookings, users, nextCabinId, nextBookingId, now, last>>

\* Lines 113-116: both days done, the response is returned.
list_return(w) ==
    /\ reqs[w].phase = "for"
    /\ ~(reqs[w].day_offset < HorizonDays)
    /\ last' = [op |-> "list_available_slots", code |-> 200,
                arg |-> reqs[w].cabin.id, body |-> reqs[w].available_slots]
    /\ reqs' = [reqs EXCEPT ![w] = Idle]
    /\ UNCHANGED <<cabins, bookings, users, nextCabinId, nextBookingId, now>>

NextLoop ==
    \/ Tick
    \/ \E name \in CabinNames, cfg \in LoopConfigs : create_cabin(name, cfg)
    \/ \E c \in CabinIdInputs, name \in CabinNames, cfg \in LoopConfigs :
          update_cabin(c, name, cfg)
    \/ \E u \in FullUsers, booking \in LoopBookingCreate : book_cabin(u, booking)
    \/ \E w \in LoopWorkers, c \in CabinIdInputs : list_begin(w, c)
    \/ \E w \in LoopWorkers : list_day(w)
    \/ \E w \in LoopWorkers : list_step(w)
    \/ \E w \in LoopWorkers : list_day_end(w)
    \/ \E w \in LoopWorkers : list_return(w)

SpecLoop == Init /\ [][NextLoop]_vars

\* C16: list_available_slots terminates for every cabin create_cabin or
\* update_cabin can store, slot_duration zero or negative and start_time not
\* before end_time included: no iteration of its while loop leaves the loop
\* where it was, with the same current_time and the same daily_slots (such an
\* iteration repeats for ever).
C16_ListingLoopAdvances ==
    [][ \A w \in LoopWorkers :
           (list_step(w) /\ reqs'[w].phase = "while")
           => \/ reqs'[w].current_time # reqs[w].current_time
              \/ reqs'[w].daily_slots # reqs[w].daily_slots ]_vars

\* C17: no booking operation creates a booking whose slot_time is at or
\* before now at the moment of creation; book_cabin and book_selected_slot
\* reject such a request and leave the bookings unchanged.
C17_NoBookingInThePast ==
    [][ /\ \A b \in bookings' :
              b.id \notin { x.id : x \in bookings } => b.slot_time > now
        /\ \A u \in users, booking \in BookingCreate :
              (book_cabin(u, booking) /\ booking.slot_time <= now)
              => (last'.code # 200 /\ bookings' = bookings)
        /\ \A u \in users, c \in CabinIdInputs, s \in SelectedSlotInputs :
              (book_selected_slot(u, c, s) /\ StrptimeOk(s) /\ Strptime(s) <= now)
              => (last'.code # 200 /\ bookings' = bookings) ]_vars
====
